---- MODULE Spec2Model ----
(***************************************************************************)
(* Model of src/server.py: the visitor counter (a JSON file guarded by     *)
(* COUNT_LOCK) and the /api/validate endpoint (temporary input file,       *)
(* external validator with a timeout, parsing of the validator's stdout).  *)
(*                                                                         *)
(* Text is a sequence of one-character strings.  The two emoji of the      *)
(* validator's output are the single characters "U+2705" (check mark) and  *)
(* "U+274C" (cross mark).                                                  *)
(***************************************************************************)
EXTENDS Integers, Sequences, FiniteSets, TLC

\* ------------------------------------------------------------------ bounds
\* number of concurrent /api/visitor_count requests
NReq == 3
\* largest count a well-formed counter record starts with
MaxInitCount == 1
\* number of lines of the validator's stdout
MaxLines == 4
\* number of lines of the stdout captured by a /api/validate request
MaxStdoutLines == 3
\* number of /api/validate requests in one behaviour
MaxValidations == 2

\* ------------------------------------------------------- Python str helpers
NL == "\n"
Whitespace == {" ", "\t", NL}
Digits == {"0", "1", "2", "3", "4", "5", "6", "7", "8", "9"}

\* the indexes at which needle occurs in hay
Occurrences(needle, hay) ==
    {i \in 1..(Len(hay) - Len(needle) + 1) : SubSeq(hay, i, i + Len(needle) - 1) = needle}

\* needle in hay
Contains(needle, hay) ==
    \E i \in 1..(Len(hay) - Len(needle) + 1) :
        SubSeq(hay, i, i + Len(needle) - 1) = needle

\* hay.find(needle) + 1: the 1-based index of the first occurrence, 0 when absent
Find(needle, hay) ==
    LET occ == Occurrences(needle, hay)
    IN  IF occ = {} THEN 0 ELSE CHOOSE i \in occ : \A j \in occ : i <= j

\* hay.split(sep): the pieces between the non-overlapping occurrences of sep
RECURSIVE Split(_, _)
Split(hay, sep) ==
    LET i == Find(sep, hay)
    IN  IF i = 0 THEN <<hay>>
        ELSE <<SubSeq(hay, 1, i - 1)>> \o Split(SubSeq(hay, i + Len(sep), Len(hay)), sep)

RECURSIVE LStrip(_)
LStrip(s) == IF s # <<>> /\ Head(s) \in Whitespace THEN LStrip(Tail(s)) ELSE s

RECURSIVE RStrip(_)
RStrip(s) ==
    IF s # <<>> /\ s[Len(s)] \in Whitespace THEN RStrip(SubSeq(s, 1, Len(s) - 1)) ELSE s

\* s.strip()
Strip(s) == RStrip(LStrip(s))

\* '\n'.join(ls)
RECURSIVE JoinLines(_)
JoinLines(ls) ==
    IF ls = <<>> THEN <<>>
    ELSE IF Len(ls) = 1 THEN ls[1]
    ELSE ls[1] \o <<NL>> \o JoinLines(Tail(ls))

\* ------------------------------------------------------------ marker phrases
CheckMark == "U+2705"
CrossMark == "U+274C"
VALID_JSON == <<"V", "A", "L", "I", "D", " ", "J", "S", "O", "N">>
INVALID_JSON == <<"I", "N">> \o VALID_JSON
CHECK_VALID_JSON == <<CheckMark, " ">> \o VALID_JSON
WELL_FORMED_SHORT ==
    <<"J", "S", "O", "N", " ", "i", "s", " ", "w", "e", "l", "l", "-",
      "f", "o", "r", "m", "e", "d">>
WELL_FORMED ==
    WELL_FORMED_SHORT \o
    <<" ", "a", "n", "d", " ", "s", "t", "r", "u", "c", "t", "u", "r", "a",
      "l", "l", "y", " ", "v", "a", "l", "i", "d">>
ERRORS_FOUND ==
    <<"E", "r", "r", "o", "r", "s", " ", "F", "o", "u", "n", "d", ":">>
SEPARATOR == <<"=", "=", "=", "=", "=", "=", "=", "=", "=", "=">>
DOT_SPACE == <<".", " ">>
VALIDATION_COMPLETED ==
    <<"V", "a", "l", "i", "d", "a", "t", "i", "o", "n", " ",
      "c", "o", "m", "p", "l", "e", "t", "e", "d">>

\* ------------------------------------------------ the validator's stdout
\* The lines a captured stdout is built from: the marker lines the validator
\* prints, a blank line, the error section's header, separator and entries,
\* and a line that starts with a digit but carries no ". ".
LINE_VALID == CHECK_VALID_JSON
LINE_INVALID == <<CrossMark, " ">> \o INVALID_JSON
LINE_FOO == <<"1", ".", " ", "f", "o", "o">>
LINE_BAR == <<"2", ".", " ", "b", "a", "r">>
LINE_3X == <<" ", "3", "x", "\t">>
StdoutLines ==
    { <<>>, LINE_VALID, LINE_INVALID, WELL_FORMED, ERRORS_FOUND, SEPARATOR,
      LINE_FOO, LINE_BAR, LINE_3X }

\* every text of at most n of these lines, joined by newlines
SeqsUpTo(S, n) == UNION { [1..k -> S] : k \in 0..n }
Outputs(n) == { JoinLines(ls) : ls \in SeqsUpTo(StdoutLines, n) }

\* --------------------------------------------- validate_json: output parsing
\* is_valid with the "or" of the two valid markers grouped before the "and"
is_valid_grouped(output) ==
    \/ ( /\ Contains(CHECK_VALID_JSON, output) \/ Contains(VALID_JSON, output)
         /\ ~Contains(INVALID_JSON, output) )
    \/ Contains(WELL_FORMED, output)

\* lines 129-133; Python's "and" binds tighter than "or"
is_valid(output) ==
    \/ Contains(CHECK_VALID_JSON, output)
    \/ (Contains(VALID_JSON, output) /\ ~Contains(INVALID_JSON, output))
    \/ Contains(WELL_FORMED, output)

\* error_section cut at the separator only: everything after the first header,
\* later headers included, up to the next separator
error_section_to_separator(output) ==
    LET h == Find(ERRORS_FOUND, output)
    IN  Split(SubSeq(output, h + Len(ERRORS_FOUND), Len(output)), SEPARATOR)[1]

\* line 138: output.split('Errors Found:')[1].split('==========')[0]
error_section(output) == Split(Split(output, ERRORS_FOUND)[2], SEPARATOR)[1]

\* line 139, over the list section.split('\n')
RECURSIVE error_lines(_)
error_lines(lines) ==
    IF lines = <<>> THEN <<>>
    ELSE LET line == Strip(Head(lines))
         IN  (IF line # <<>> /\ line[1] \in Digits THEN <<line>> ELSE <<>>)
             \o error_lines(Tail(lines))

\* line 140, one element: line.split('. ', 1)[1] if '. ' in line else line
strip_number(line) ==
    IF Contains(DOT_SPACE, line)
    THEN SubSeq(line, Find(DOT_SPACE, line) + Len(DOT_SPACE), Len(line))
    ELSE line

\* lines 136-140
errors(output) ==
    IF Contains(ERRORS_FOUND, output)
    THEN LET ls == error_lines(Split(error_section(output), <<NL>>))
         IN  [k \in 1..Len(ls) |-> strip_number(ls[k])]
    ELSE <<>>

\* the for loops of lines 147-151 and 158-162, from index i (1-based) on, msg
\* being message_section so far
RECURSIVE line_after(_, _, _, _)
line_after(marker, lines, i, msg) ==
    IF i > Len(lines) THEN msg
    ELSE IF Contains(marker, lines[i]) /\ i < Len(lines)
         THEN LET m == Strip(lines[i + 1])
              IN  IF m # <<>> THEN m ELSE line_after(marker, lines, i + 1, m)
         ELSE line_after(marker, lines, i + 1, msg)

\* lines 143-162
message_section(output) ==
    IF Contains(INVALID_JSON, output)
    THEN line_after(INVALID_JSON, Split(output, <<NL>>), 1, VALIDATION_COMPLETED)
    ELSE IF Contains(VALID_JSON, output) \/ Contains(WELL_FORMED_SHORT, output)
    THEN IF Contains(WELL_FORMED, output)
         THEN WELL_FORMED
         ELSE line_after(VALID_JSON, Split(output, <<NL>>), 1, VALIDATION_COMPLETED)
    ELSE VALIDATION_COMPLETED

\* lines 164-168: the body of the 200 response
ParseOutput(output) ==
    [valid |-> is_valid(output),
     message |-> message_section(output),
     errors |-> errors(output)]

\* ------------------------------------------------------------------ state
VARIABLES
    file,           \* COUNT_FILE: [kind, count], kind "missing", "corrupt" or "record"
    lock,           \* COUNT_LOCK: 0 when free, else the request holding it
    method,         \* /api/visitor_count request -> "GET", "POST", "OPTIONS"
    pc,             \* /api/visitor_count request -> position in visitor_counter
    current_count,  \* request -> local current_count
    new_count,      \* request -> local new_count
    resp,           \* request -> [status, count] returned
    initial,        \* content of COUNT_FILE when the server started
    writeFailed,    \* some save_visitor_count_to_file raised
    output,         \* parser: a captured stdout text
    parsed,         \* parser: [done, body: [valid, message, errors]] for output
    tempFiles,      \* names of the temporary files that exist
    created,        \* number of temporary files created so far
    handled,        \* number of /api/validate requests answered
    vreq,           \* the last /api/validate request
    vrun,           \* what the validator did in it: "none" when not invoked
    stdout,         \* the stdout captured in it
    invoked,        \* number of validator invocations in it
    vtemp,          \* the temporary file it created, 0 when none
    vresp,          \* its response: [status, body: [valid, message, errors]]
    vpc             \* "idle", or "run" while a request waits for the validator

counterVars ==
    <<file, lock, method, pc, current_count, new_count, resp, initial, writeFailed>>
parserVars == <<output, parsed>>
validateVars ==
    <<tempFiles, created, handled, vreq, vrun, stdout, invoked, vtemp, vresp, vpc>>
vars == <<counterVars, parserVars, validateVars>>

\* --------------------------------------------------------- visitor counter
Requests == 1..NReq
Methods == {"GET", "POST", "OPTIONS"}
Missing == [kind |-> "missing", count |-> 0]
Corrupt == [kind |-> "corrupt", count |-> 0]
Record(n) == [kind |-> "record", count |-> n]
FileContents == {Missing, Corrupt} \cup {Record(n) : n \in 0..MaxInitCount}
NoResp == [status |-> 0, count |-> 0]

\* lines 31-39: what get_visitor_count_from_file returns for a file content
CountOf(f) == IF f.kind = "record" THEN f.count ELSE 0

\* lines 48-51: a request arrives; OPTIONS is answered at once.  Requests are
\* numbered in their order of arrival.
Arrive(r, m) ==
    /\ pc[r] = "new"
    /\ \A q \in Requests : q < r => pc[q] # "new"
    /\ method' = [method EXCEPT ![r] = m]
    /\ IF m = "OPTIONS"
       THEN /\ pc' = [pc EXCEPT ![r] = "done"]
            /\ resp' = [resp EXCEPT ![r] = [status |-> 204, count |-> 0]]
       ELSE /\ pc' = [pc EXCEPT ![r] = "get_lock"]
            /\ resp' = resp
    /\ UNCHANGED <<file, lock, current_count, new_count, initial, writeFailed>>
    /\ UNCHANGED <<parserVars, validateVars>>

\* line 30: with COUNT_LOCK, entered
AcquireForRead(r) ==
    /\ pc[r] = "get_lock"
    /\ lock = 0
    /\ lock' = r
    /\ pc' = [pc EXCEPT ![r] = "get_read"]
    /\ UNCHANGED <<file, method, current_count, new_count, resp, initial, writeFailed>>
    /\ UNCHANGED <<parserVars, validateVars>>

\* ReadCount that resets a missing or unparsable record to count 0 on reading
ReadCountHeals(r) ==
    /\ pc[r] = "get_read"
    /\ lock = r
    /\ lock' = 0
    /\ file' = IF file.kind = "record" THEN file ELSE Record(0)
    /\ current_count' = [current_count EXCEPT ![r] = CountOf(file)]
    /\ IF method[r] = "POST"
       THEN /\ new_count' = [new_count EXCEPT ![r] = CountOf(file) + 1]
            /\ pc' = [pc EXCEPT ![r] = "save_lock"]
            /\ resp' = resp
       ELSE /\ new_count' = new_count
            /\ pc' = [pc EXCEPT ![r] = "done"]
            /\ resp' = [resp EXCEPT ![r] = [status |-> 200, count |-> CountOf(file)]]
    /\ UNCHANGED <<method, initial, writeFailed>>
    /\ UNCHANGED <<parserVars, validateVars>>

\* lines 31-39, then 55-56 (POST) or 64-65 (GET): the file is read under the
\* lock, the lock is released on return, and POST computes new_count
ReadCount(r) ==
    /\ pc[r] = "get_read"
    /\ lock = r
    /\ lock' = 0
    /\ file' = file
    /\ current_count' = [current_count EXCEPT ![r] = CountOf(file)]
    /\ IF method[r] = "POST"
       THEN /\ new_count' = [new_count EXCEPT ![r] = CountOf(file) + 1]
            /\ pc' = [pc EXCEPT ![r] = "save_lock"]
            /\ resp' = resp
       ELSE /\ new_count' = new_count
            /\ pc' = [pc EXCEPT ![r] = "done"]
            /\ resp' = [resp EXCEPT ![r] = [status |-> 200, count |-> CountOf(file)]]
    /\ UNCHANGED <<method, initial, writeFailed>>
    /\ UNCHANGED <<parserVars, validateVars>>

\* line 43: with COUNT_LOCK, entered by save_visitor_count_to_file
AcquireForWrite(r) ==
    /\ pc[r] = "save_lock"
    /\ lock = 0
    /\ lock' = r
    /\ pc' = [pc EXCEPT ![r] = "save_write"]
    /\ UNCHANGED <<file, method, current_count, new_count, resp, initial, writeFailed>>
    /\ UNCHANGED <<parserVars, validateVars>>

\* lines 44-45, then 60: the record is rewritten, the lock released, and the
\* new count returned
WriteCount(r) ==
    /\ pc[r] = "save_write"
    /\ lock = r
    /\ lock' = 0
    /\ file' = Record(new_count[r])
    /\ pc' = [pc EXCEPT ![r] = "done"]
    /\ resp' = [resp EXCEPT ![r] = [status |-> 200, count |-> new_count[r]]]
    /\ UNCHANGED <<method, current_count, new_count, initial, writeFailed>>
    /\ UNCHANGED <<parserVars, validateVars>>

\* lines 44-45 raising: open() fails and leaves the file as it was, or the
\* write fails after open() truncated it; the error propagates (status 500)
WriteFails(r) ==
    /\ pc[r] = "save_write"
    /\ lock = r
    /\ lock' = 0
    /\ file' \in {file, Corrupt}
    /\ writeFailed' = TRUE
    /\ pc' = [pc EXCEPT ![r] = "done"]
    /\ resp' = [resp EXCEPT ![r] = [status |-> 500, count |-> 0]]
    /\ UNCHANGED <<method, current_count, new_count, initial>>
    /\ UNCHANGED <<parserVars, validateVars>>

CounterNext ==
    \E r \in Requests :
        \/ \E m \in Methods : Arrive(r, m)
        \/ AcquireForRead(r)
        \/ ReadCount(r)
        \/ AcquireForWrite(r)
        \/ WriteCount(r)
        \/ WriteFails(r)

\* ----------------------------------------------------------- output parser
NotParsed ==
    [done |-> FALSE, body |-> [valid |-> FALSE, message |-> <<>>, errors |-> <<>>]]

\* lines 126-168 applied to a captured text
Parse ==
    /\ ~parsed.done
    /\ parsed' = [done |-> TRUE, body |-> ParseOutput(output)]
    /\ output' = output
    /\ UNCHANGED <<counterVars, validateVars>>

\* ------------------------------------------------------------ /api/validate
NO_JSON_INPUT ==
    <<"N", "o", " ", "J", "S", "O", "N", " ", "i", "n", "p", "u", "t",
      " ", "p", "r", "o", "v", "i", "d", "e", "d">>
MUST_INCLUDE_JSON ==
    <<"R", "e", "q", "u", "e", "s", "t", " ", "m", "u", "s", "t", " ",
      "i", "n", "c", "l", "u", "d", "e", " ", "\"", "j", "s", "o", "n",
      "\"", " ", "f", "i", "e", "l", "d">>
VALIDATION_TIMEOUT ==
    <<"V", "a", "l", "i", "d", "a", "t", "i", "o", "n", " ", "t", "i",
      "m", "e", "o", "u", "t">>
TOOK_TOO_LONG ==
    <<"V", "a", "l", "i", "d", "a", "t", "i", "o", "n", " ", "p", "r",
      "o", "c", "e", "s", "s", " ", "t", "o", "o", "k", " ", "t", "o",
      "o", " ", "l", "o", "n", "g">>
SERVER_ERROR ==
    <<"S", "e", "r", "v", "e", "r", " ", "e", "r", "r", "o", "r">>
JSON_KEY ==
    <<"j", "s", "o", "n">>
OTHER_KEY ==
    <<"o", "t", "h", "e", "r">>
BAD_REQUEST ==
    <<"B", "a", "d", "R", "e", "q", "u", "e", "s", "t">>
TYPE_ERROR ==
    <<"T", "y", "p", "e", "E", "r", "r", "o", "r">>
FILE_NOT_FOUND ==
    <<"F", "i", "l", "e", "N", "o", "t", "F", "o", "u", "n", "d", "E",
      "r", "r", "o", "r">>

\* A value request.get_json() returns, with the fields Python's operators on
\* it read: t its type, n an int's or bool's value, s a str's characters,
\* items a list's elements, keys a dict's keys, json the type of data['json'].
PyValue(t, n, s, items, keys, json) ==
    [t |-> t, n |-> n, s |-> s, items |-> items, keys |-> keys, json |-> json]
PyNone == PyValue("none", 0, <<>>, <<>>, {}, "none")
PyInt(n) == PyValue("int", n, <<>>, <<>>, {}, "none")
PyStr(s) == PyValue("str", 0, s, <<>>, {}, "none")
PyList(items) == PyValue("list", 0, <<>>, items, {}, "none")
PyDict(keys, json) == PyValue("dict", 0, <<>>, <<>>, keys, json)

Bodies ==
    { PyNone, PyInt(0), PyInt(5), PyStr(<<>>), PyStr(JSON_KEY), PyStr(OTHER_KEY),
      PyList(<<>>), PyList(<<JSON_KEY>>), PyList(<<OTHER_KEY>>),
      PyDict({}, "none"), PyDict({OTHER_KEY}, "none"),
      PyDict({JSON_KEY}, "str"), PyDict({JSON_KEY, OTHER_KEY}, "str"),
      PyDict({JSON_KEY}, "int"), PyDict({JSON_KEY}, "none") }

\* the requests: OPTIONS, POST without a body, POST with a JSON body
OptionsRequest == [method |-> "OPTIONS", body |-> FALSE, data |-> PyNone]
PostRequests ==
    {[method |-> "POST", body |-> FALSE, data |-> PyNone]}
    \cup {[method |-> "POST", body |-> TRUE, data |-> d] : d \in Bodies}

\* line 84: request.get_json().  Without a JSON body it returns None or raises
\* (415 / 400), depending on the Flask version and the Content-Type header.
GetJson(req) ==
    IF req.body
    THEN {[raised |-> FALSE, data |-> req.data]}
    ELSE {[raised |-> FALSE, data |-> PyNone], [raised |-> TRUE, data |-> PyNone]}

\* bool(data)
Truthy(d) ==
    CASE d.t = "none" -> FALSE
      [] d.t = "int" -> d.n # 0
      [] d.t = "str" -> d.s # <<>>
      [] d.t = "list" -> d.items # <<>>
      [] d.t = "dict" -> d.keys # {}

\* 'json' in data raises TypeError: an int is not iterable
InRaises(d) == d.t = "int"

\* 'json' in data
HasJson(d) ==
    CASE d.t = "str" -> Contains(JSON_KEY, d.s)
      [] d.t = "list" -> \E i \in 1..Len(d.items) : d.items[i] = JSON_KEY
      [] d.t = "dict" -> JSON_KEY \in d.keys
      [] OTHER -> FALSE

\* data['json'] raises TypeError: str and list indices must be integers
GetItemRaises(d) == d.t \in {"str", "list"}

\* temp_file.write(json_input) raises TypeError unless json_input is a str
WriteRaises(json_input) == json_input # "str"

VResp(status, valid, message, errs) ==
    [status |-> status,
     body |-> [valid |-> valid, message |-> message, errors |-> errs]]
NoVResp == VResp(0, FALSE, <<>>, <<>>)
\* lines 87-91
MissingFieldResp == VResp(400, FALSE, NO_JSON_INPUT, <<MUST_INCLUDE_JSON>>)
\* lines 177-181
TimeoutResp == VResp(500, FALSE, VALIDATION_TIMEOUT, <<TOOK_TOO_LONG>>)
\* lines 187-191; e stands for str(e), named after the exception's type
ServerErrorResp(e) == VResp(500, FALSE, SERVER_ERROR, <<e>>)
\* lines 164-168
OkResp(out) == [status |-> 200, body |-> ParseOutput(out)]

RunOutcomes == {"completed", "timeout", "launch_fail"}

\* lines 109-115 and the handlers of lines 175-191: the response for what
\* subprocess.run did
ResponseFor(run, out) ==
    CASE run = "completed" -> OkResp(out)
      [] run = "timeout" -> TimeoutResp
      [] run = "launch_fail" -> ServerErrorResp(FILE_NOT_FOUND)

\* a finally clause that leaves the file on disk
FinallyKeeps(files, temp_filename) == files

\* lines 170-173: the finally clause of the inner try
Finally(files, temp_filename) == files \ {temp_filename}

\* lines 80-81
ValidateOptions ==
    /\ vpc = "idle"
    /\ handled < MaxValidations
    /\ vreq' = OptionsRequest
    /\ vresp' = VResp(204, FALSE, <<>>, <<>>)
    /\ vrun' = "none"
    /\ stdout' = <<>>
    /\ invoked' = 0
    /\ vtemp' = 0
    /\ handled' = handled + 1
    /\ UNCHANGED <<tempFiles, created, vpc>>
    /\ UNCHANGED <<counterVars, parserVars>>

\* what lines 84-98 end in for the value get_json gave: a response, or "run"
\* with the temporary file written
Received(gj) ==
    IF gj.raised THEN [to |-> "error", temp |-> FALSE, resp |-> ServerErrorResp(BAD_REQUEST)]
    ELSE IF ~Truthy(gj.data) THEN [to |-> "error", temp |-> FALSE, resp |-> MissingFieldResp]
    ELSE IF InRaises(gj.data) THEN [to |-> "error", temp |-> FALSE, resp |-> ServerErrorResp(TYPE_ERROR)]
    ELSE IF ~HasJson(gj.data) THEN [to |-> "error", temp |-> FALSE, resp |-> MissingFieldResp]
    ELSE IF GetItemRaises(gj.data) THEN [to |-> "error", temp |-> FALSE, resp |-> ServerErrorResp(TYPE_ERROR)]
    ELSE IF WriteRaises(gj.data.json) THEN [to |-> "error", temp |-> TRUE, resp |-> ServerErrorResp(TYPE_ERROR)]
    ELSE [to |-> "run", temp |-> TRUE, resp |-> NoVResp]

\* lines 83-98 of a POST: the body is read and checked, the temporary file is
\* created (delete=False) and written.  A failure in the with block of lines
\* 96-98 is outside the inner try: it reaches the handler of line 183 with
\* the file still on disk.
Receive(req, gj) ==
    /\ vpc = "idle"
    /\ handled < MaxValidations
    /\ gj \in GetJson(req)
    /\ vreq' = req
    /\ vrun' = "none"
    /\ stdout' = <<>>
    /\ invoked' = 0
    /\ LET r == Received(gj)
       IN  /\ vresp' = r.resp
           /\ created' = IF r.temp THEN created + 1 ELSE created
           /\ vtemp' = IF r.temp THEN created + 1 ELSE 0
           /\ tempFiles' = IF r.temp THEN tempFiles \cup {created + 1} ELSE tempFiles
           /\ vpc' = IF r.to = "run" THEN "run" ELSE "idle"
           /\ handled' = IF r.to = "run" THEN handled ELSE handled + 1
    /\ UNCHANGED <<counterVars, parserVars>>

\* the stdout subprocess.run can capture: a text when the validator completed
Captured(run) == IF run = "completed" THEN Outputs(MaxStdoutLines) ELSE {<<>>}

\* lines 100-191: subprocess.run is called once; it completes, times out or
\* fails to launch; the finally clause runs; the response is returned
RunValidator ==
    /\ vpc = "run"
    /\ \E run \in RunOutcomes :
         \E out \in Captured(run) :
            /\ vrun' = run
            /\ stdout' = out
            /\ vresp' = ResponseFor(run, out)
    /\ invoked' = invoked + 1
    /\ tempFiles' = Finally(tempFiles, vtemp)
    /\ vpc' = "idle"
    /\ handled' = handled + 1
    /\ UNCHANGED <<vreq, vtemp, created>>
    /\ UNCHANGED <<counterVars, parserVars>>

ValidateNext ==
    \/ ValidateOptions
    \/ \E req \in PostRequests : \E gj \in GetJson(req) : Receive(req, gj)
    \/ RunValidator

\* ---------------------------------------------------------- specifications
\* The visitor counter under concurrent requests: COUNT_FILE starts missing,
\* unparsable or holding a count.
InitCounter ==
    /\ file \in FileContents
    /\ initial = file
    /\ lock = 0
    /\ method = [r \in Requests |-> "GET"]
    /\ pc = [r \in Requests |-> "new"]
    /\ current_count = [r \in Requests |-> 0]
    /\ new_count = [r \in Requests |-> 0]
    /\ resp = [r \in Requests |-> NoResp]
    /\ writeFailed = FALSE
    /\ output = <<>>
    /\ parsed = NotParsed
    /\ tempFiles = {}
    /\ created = 0
    /\ handled = 0
    /\ vreq = OptionsRequest
    /\ vrun = "none"
    /\ stdout = <<>>
    /\ invoked = 0
    /\ vtemp = 0
    /\ vresp = NoVResp
    /\ vpc = "idle"
SpecCounter == InitCounter /\ [][CounterNext]_vars

\* The output parser applied to every captured text of at most MaxLines lines.
InitParser ==
    /\ output \in Outputs(MaxLines)
    /\ parsed = NotParsed
    /\ file = Missing
    /\ initial = Missing
    /\ lock = 0
    /\ method = [r \in Requests |-> "GET"]
    /\ pc = [r \in Requests |-> "new"]
    /\ current_count = [r \in Requests |-> 0]
    /\ new_count = [r \in Requests |-> 0]
    /\ resp = [r \in Requests |-> NoResp]
    /\ writeFailed = FALSE
    /\ tempFiles = {}
    /\ created = 0
    /\ handled = 0
    /\ vreq = OptionsRequest
    /\ vrun = "none"
    /\ stdout = <<>>
    /\ invoked = 0
    /\ vtemp = 0
    /\ vresp = NoVResp
    /\ vpc = "idle"
SpecParser == InitParser /\ [][Parse]_vars

\* /api/validate, one request after the other, no temporary file at the start.
InitValidate ==
    /\ tempFiles = {}
    /\ created = 0
    /\ handled = 0
    /\ vreq = OptionsRequest
    /\ vrun = "none"
    /\ stdout = <<>>
    /\ invoked = 0
    /\ vtemp = 0
    /\ vresp = NoVResp
    /\ vpc = "idle"
    /\ output = <<>>
    /\ parsed = NotParsed
    /\ file = Missing
    /\ initial = Missing
    /\ lock = 0
    /\ method = [r \in Requests |-> "GET"]
    /\ pc = [r \in Requests |-> "new"]
    /\ current_count = [r \in Requests |-> 0]
    /\ new_count = [r \in Requests |-> 0]
    /\ resp = [r \in Requests |-> NoResp]
    /\ writeFailed = FALSE
SpecValidate == InitValidate /\ [][ValidateNext]_vars

\* ------------------------------------------------------------------ claims
AllDone == \A r \in Requests : pc[r] = "done"
PostsAnswered == {r \in Requests : method[r] = "POST" /\ pc[r] = "done"}

\* C1: once N concurrent POSTs that started at count c have all returned, no
\* write having failed, the stored count is c + N (with GETs and OPTIONS among
\* the requests, N counts the POSTs).
C1_NoLostUpdate ==
    (AllDone /\ ~writeFailed)
        => CountOf(file) = CountOf(initial) + Cardinality(PostsAnswered)

\* C10: from a well-formed record and with no write failing, no step lowers
\* the stored count, and no two POSTs are answered with the same count.
C10_MonotoneDistinct ==
    [][ (initial.kind = "record" /\ ~writeFailed')
          => /\ CountOf(file') >= CountOf(file)
             /\ \A r, q \in Requests :
                  ( /\ r # q
                    /\ method'[r] = "POST" /\ pc'[r] = "done"
                    /\ method'[q] = "POST" /\ pc'[q] = "done" )
                  => resp'[r].count # resp'[q].count ]_vars

\* C9: no step of a GET or OPTIONS request changes COUNT_FILE, a GET answers
\* the recorded count, 0 when the record is missing or unparsable, and the
\* file changes only in the write step of a POST.
C9_GetLeavesRecord ==
    [][ /\ (file' # file) =>
              \E r \in Requests : method[r] = "POST" /\ pc[r] = "save_write" /\ pc'[r] = "done"
        /\ \A r \in Requests :
              (method'[r] \in {"GET", "OPTIONS"} /\ pc'[r] # pc[r]) => file' = file
        /\ \A r \in Requests :
              (method[r] = "GET" /\ pc[r] = "get_read" /\ pc'[r] = "done")
              => /\ resp'[r].status = 200
                 /\ resp'[r].count = (IF file.kind = "record" THEN file.count ELSE 0)
                 /\ file'.kind = file.kind ]_vars

\* a GET was answered count 0 from an unparsable record, and the record is
\* still the unparsable one the server started with
C9_Witness ==
    \E r \in Requests :
        /\ method[r] = "GET" /\ pc[r] = "done"
        /\ resp[r] = [status |-> 200, count |-> 0]
        /\ file = Corrupt
        /\ initial = Corrupt

\* index of the first line that contains the marker
FirstLineWith(marker, lines) ==
    CHOOSE i \in 1..Len(lines) :
        /\ Contains(marker, lines[i])
        /\ \A j \in 1..(i - 1) : ~Contains(marker, lines[j])
NoMarker(out) == ~Contains(VALID_JSON, out) /\ ~Contains(WELL_FORMED_SHORT, out)
\* the marker whose following line is the message: 'INVALID JSON' when
\* present, else 'VALID JSON'; the well-formed phrase is its own message
FollowingBlankOrMissing(out) ==
    /\ Contains(VALID_JSON, out)
    /\ ~Contains(WELL_FORMED, out)
    /\ LET marker == IF Contains(INVALID_JSON, out) THEN INVALID_JSON ELSE VALID_JSON
           lines == Split(out, <<NL>>)
           i == FirstLineWith(marker, lines)
       IN  i = Len(lines) \/ Strip(lines[i + 1]) = <<>>

\* C4: the message is the fallback 'Validation completed' when the text has
\* no marker or the line after the marker line is blank or missing, and it is
\* never empty.
C4_MessageFallback ==
    parsed.done =>
        /\ (NoMarker(output) \/ FollowingBlankOrMissing(output))
              => parsed.body.message = VALIDATION_COMPLETED
        /\ parsed.body.message # <<>>

\* C3 as stated: valid iff (a valid marker, plain or check-marked, and no
\* 'INVALID JSON') or the well-formed phrase.
C3_Original ==
    parsed.done =>
        (parsed.body.valid <=>
            \/ ( /\ Contains(VALID_JSON, output) \/ Contains(CHECK_VALID_JSON, output)
                 /\ ~Contains(INVALID_JSON, output) )
            \/ Contains(WELL_FORMED, output))

\* C3, amended: valid is false exactly when the text has neither the
\* check-marked marker nor the well-formed phrase and either contains
\* 'INVALID JSON' or lacks 'VALID JSON'; the check-marked marker makes the
\* text valid even next to 'INVALID JSON'.
C3_Valid ==
    parsed.done =>
        /\ (~parsed.body.valid) <=>
              /\ ~Contains(CHECK_VALID_JSON, output)
              /\ ~Contains(WELL_FORMED, output)
              /\ Contains(INVALID_JSON, output) \/ ~Contains(VALID_JSON, output)
        /\ (Contains(CHECK_VALID_JSON, output) /\ Contains(INVALID_JSON, output))
              => parsed.body.valid

\* a text with the check-marked marker and 'INVALID JSON', no well-formed
\* phrase, parsed as valid
C3_Witness ==
    /\ parsed.done
    /\ Contains(CHECK_VALID_JSON, output)
    /\ Contains(INVALID_JSON, output)
    /\ ~Contains(WELL_FORMED, output)
    /\ parsed.body.valid

\* position of the first of the needles in hay, Len(hay) + 1 when there is none
Min(S) == CHOOSE x \in S : \A y \in S : x <= y
FirstOf(needles, hay) ==
    Min({Len(hay) + 1} \cup {Find(n, hay) : n \in {m \in needles : Contains(m, hay)}})

\* the entries of a section: its lines with blanks stripped that start with a
\* digit, each without the text up to and including its first ". " (whole
\* when it has none)
RECURSIVE Entries(_)
Entries(lines) ==
    IF lines = <<>> THEN <<>>
    ELSE LET line == Strip(Head(lines))
             dots == {i \in 1..(Len(line) - 1) : line[i] = "." /\ line[i + 1] = " "}
         IN  (IF line = <<>> \/ line[1] \notin Digits THEN <<>>
              ELSE IF dots = {} THEN <<line>>
              ELSE <<SubSeq(line, Min(dots) + 2, Len(line))>>)
             \o Entries(Tail(lines))

\* the errors of a text whose section starts after the first header and ends
\* before the first of the stops (or with the text)
ErrorsUpTo(stops, out) ==
    IF ~Contains(ERRORS_FOUND, out) THEN <<>>
    ELSE LET rest == SubSeq(out, Find(ERRORS_FOUND, out) + Len(ERRORS_FOUND), Len(out))
         IN  Entries(Split(SubSeq(rest, 1, FirstOf(stops, rest) - 1), <<NL>>))

\* C5 as stated: the section runs from the first 'Errors Found:' to the next
\* '==========' separator.
C5_Original == parsed.done => parsed.body.errors = ErrorsUpTo({SEPARATOR}, output)

\* C5, amended: the section runs from the first 'Errors Found:' to the next
\* '==========' separator, the next 'Errors Found:' header or the end of the
\* text, whichever comes first.
C5_Errors ==
    parsed.done => parsed.body.errors = ErrorsUpTo({SEPARATOR, ERRORS_FOUND}, output)

\* the text 'Errors Found:\n1. foo\n2. bar\n==========' parsed to foo, bar
C5_Witness ==
    /\ parsed.done
    /\ output = JoinLines(<<ERRORS_FOUND, LINE_FOO, LINE_BAR, SEPARATOR>>)
    /\ parsed.body.errors = <<<<"f", "o", "o">>, <<"b", "a", "r">>>>

\* a request without the json field: no body, a body that is no JSON object,
\* or an object without the key
NoJsonField(req) ==
    /\ req.method = "POST"
    /\ ~req.body \/ req.data.t # "dict" \/ JSON_KEY \notin req.data.keys
Returned == vpc = "idle" /\ handled > 0

\* C2: a temporary file created by a request is gone when the endpoint returns.
C2_TempRemoved == (Returned /\ vtemp # 0) => vtemp \notin tempFiles

\* C6: a request without the json field is answered 400 with the one fixed
\* error, creates no temporary file and does not invoke the validator.
C6_MissingField ==
    (Returned /\ NoJsonField(vreq))
        => /\ vresp.status = 400
           /\ ~vresp.body.valid
           /\ vresp.body.errors = <<MUST_INCLUDE_JSON>>
           /\ vtemp = 0
           /\ invoked = 0

\* C7: when the validator times out the response is 500, valid = false,
\* message 'Validation timeout', the request's temporary file is gone and the
\* validator was invoked once.
C7_Timeout ==
    vrun = "timeout"
        => /\ vresp.status = 500
           /\ ~vresp.body.valid
           /\ vresp.body.message = VALIDATION_TIMEOUT
           /\ vtemp # 0
           /\ vtemp \notin tempFiles
           /\ invoked = 1
           /\ vpc = "idle"

\* a second request timed out while the file leaked by the first is on disk
C7_Witness ==
    /\ vrun = "timeout"
    /\ vresp.status = 500
    /\ vtemp = 2
    /\ tempFiles = {1}

\* C8: in every response to a POST, a non-empty errors list implies
\* valid = false.
C8_ErrorsImplyInvalid ==
    (Returned /\ vreq.method = "POST" /\ vresp.body.errors # <<>>) => ~vresp.body.valid

====
